---- MODULE Spec2Model ----
(***************************************************************************)
(* Model of sharedcode/helper.py: the batch request/response protocol      *)
(* (compose_response, transform_value, send_to_queue), the retry-guarded   *)
(* generation calls (get_openai_completion, get_openai_chat_completion)    *)
(* and the index publisher (push_to_ACS).                                  *)
(*                                                                         *)
(* Python dicts are functions whose DOMAIN is the set of keys present, so  *)
(* "k in d" is k \in DOMAIN d and d[k] on an absent key is a KeyError.     *)
(***************************************************************************)
EXTENDS Integers, Sequences, FiniteSets, TLC

VARIABLES
    \* compose_response / transform_value / send_to_queue
    json_data,      \* the parsed request body handed to compose_response
    values,         \* local 'values' of compose_response
    idx,            \* position of the for loop over values (1-based)
    results,        \* results["values"]
    pc,             \* control point of the batch invocation
    response,       \* string returned by compose_response, or NoResponse
    exc,            \* exception propagating out of compose_response, or NoException
    queue,          \* messages accepted by the Service Bus, in send order
    send_outcome,   \* per transformed item: how its send_to_queue call ended
    submitted,      \* messages handed to sender.send_messages, in call order
    \* get_openai_response / get_openai_completion / get_openai_chat_completion
    config,         \* the module-level OpenAI parameters read from the environment
    text,           \* argument 'text' of the generate call
    prompt,         \* argument 'prompt' of the generate call ('' when not passed)
    gen_pc,         \* control point of the generate call
    attempt_number, \* tenacity's attempt counter of the call
    backend_fails,  \* how many calls the backend fails before it answers
    backend_reply,  \* the text the backend answers with once it succeeds
    api_calls,      \* requests received by the backend, in order
    sleep,          \* the wait chosen before the next attempt
    gen_result,     \* value returned by the generate call, or NoResult
    gen_exc,        \* exception raised by the generate call, or NoException
    \* push_to_ACS
    OPENAI_PROMPT_KEYS, \* the field-spec configuration string, as its tokens
    data,           \* argument of push_to_ACS: {metadata_storage_path, output}
    acs_pc,         \* control point of the push_to_ACS call
    keys,           \* the list the for loop of push_to_ACS iterates
    key_idx,        \* position of that loop (1-based)
    body_value,     \* the document under construction
    http_requests,  \* requests posted to the index endpoint, in order
    http_answers,   \* what the endpoint did with each request
    acs_result,     \* status returned by push_to_ACS (0 until it returns)
    acs_exc,        \* exception raised by push_to_ACS, or NoException
    \* concurrent compose_response invocations
    invocation,     \* per invocation: the locals of its compose_response frame
    bus,            \* messages accepted by the Service Bus from all invocations
    \* duplicate delivery of one enrichment result
    index,          \* the search index: per metadata_storage_path its document
    applied,        \* per posted request: whether the index applied it
    deliveries      \* the push_to_ACS calls that have ended, with the index they left

varsBatch == <<json_data, values, idx, results, pc, response, exc, queue, send_outcome,
               submitted>>

varsGen == <<config, text, prompt, gen_pc, attempt_number, backend_fails, backend_reply,
             api_calls, sleep, gen_result, gen_exc>>

varsACS == <<OPENAI_PROMPT_KEYS, data, acs_pc, keys, key_idx, body_value, http_requests,
             http_answers, acs_result, acs_exc>>

varsConcurrent == <<invocation, bus>>

varsIndex == <<index, applied, deliveries>>

vars == <<varsBatch, varsGen, varsACS, varsConcurrent, varsIndex>>

(***************************************************************************)
(* Bounds and input domains                                                *)
(***************************************************************************)
MaxBatch == 2

RecordIds == {"1", "2"}
Paths == {"/a", "/b"}
Texts == {"hello"}

\* str(e) of the exceptions the Service Bus client can raise in send_to_queue
QueueErrors == {"connection refused", "unauthorized"}

\* send_outcome of an item whose validation failed, and of a send that returned
NotSent == "<not sent>"
Sent == "<sent>"

NoResponse == "<no response>"
NoException == "<none>"

Restrict(d, S) == [k \in S |-> d[k]]

\* every 'data' object with any subset of its two fields present
DataObjects ==
    UNION {{Restrict([metadata_storage_path |-> p, text |-> t], S) :
                S \in SUBSET {"metadata_storage_path", "text"}} :
           p \in Paths, t \in Texts}

\* every WorkItem with any subset of recordId / data present
WorkItems ==
    UNION {{Restrict([recordId |-> r, data |-> d], S) :
                S \in SUBSET {"recordId", "data"}} :
           r \in RecordIds, d \in DataObjects}

Batches == UNION {[1..n -> WorkItems] : n \in 0..MaxBatch}

\* request bodies: with a 'values' list, or without the key
Requests == {[values |-> b] : b \in Batches} \cup {Restrict([values |-> <<>>], {})}

(***************************************************************************)
(* json.dumps of the structures the code serialises                        *)
(***************************************************************************)
Quote(s) == "\"" \o s \o "\""

\* json.dumps(output) of send_to_queue's payload {"metadata_storage_path", "text"}
dumps_output(output) ==
    "{" \o Quote("metadata_storage_path") \o ": " \o Quote(output.metadata_storage_path)
        \o ", " \o Quote("text") \o ": " \o Quote(output.text) \o "}"

\* json.dumps of one output record of transform_value
dumps_record(r) ==
    IF "errors" \in DOMAIN r
    THEN "{" \o Quote("recordId") \o ": " \o Quote(r.recordId) \o ", " \o Quote("errors")
             \o ": [{" \o Quote("message") \o ": " \o Quote(r.errors[1].message) \o "}]}"
    ELSE "{" \o Quote("recordId") \o ": " \o Quote(r.recordId) \o ", " \o Quote("data")
             \o ": {" \o Quote("status") \o ": " \o Quote(r.data.status) \o "}}"

RECURSIVE dumps_list(_)
dumps_list(rs) ==
    IF rs = <<>> THEN ""
    ELSE IF Len(rs) = 1 THEN dumps_record(rs[1])
    ELSE dumps_record(rs[1]) \o ", " \o dumps_list(Tail(rs))

\* json.dumps(results, ensure_ascii=False)
dumps_results(rs) == "{" \o Quote("values") \o ": [" \o dumps_list(rs) \o "]}"

(***************************************************************************)
(* transform_value                                                         *)
(***************************************************************************)
\* ValidationError with the 'text' assert placed before the 'metadata_storage_path' one
ValidationError_TextFirst(value) ==
    IF "data" \notin DOMAIN value THEN "'data' field is required."
    ELSE IF "text" \notin DOMAIN value.data
         THEN "'text' field is required in 'data' object."
    ELSE IF "metadata_storage_path" \notin DOMAIN value.data
         THEN "'metadata_storage_path' field is required in 'data' object."
    ELSE ""

\* the ordered asserts of the validation block; "" when every assert passes
ValidationError(value) ==
    IF "data" \notin DOMAIN value THEN "'data' field is required."
    ELSE IF "metadata_storage_path" \notin DOMAIN value.data
         THEN "'metadata_storage_path' field is required in 'data' object."
    ELSE IF "text" \notin DOMAIN value.data
         THEN "'text' field is required in 'data' object."
    ELSE ""

ValidationFailure(recordId, message) ==
    [recordId |-> recordId, errors |-> <<[message |-> "Error:" \o message]>>]

SendFailure(recordId, e) ==
    [recordId |-> recordId,
     errors |-> <<[message |-> "Could not complete operation for record. " \o e]>>]

\* Success that echoes a fixed recordId instead of the item's own
Success_FixedId(recordId) ==
    [recordId |-> "1", data |-> [status |-> "Processing document"]]

Success(recordId) ==
    [recordId |-> recordId, data |-> [status |-> "Processing document"]]

\* Output with the two fields filled from each other
Output_Swapped(d) == [metadata_storage_path |-> d.text, text |-> d.metadata_storage_path]

\* the payload built for send_to_queue
Output(d) == [metadata_storage_path |-> d.metadata_storage_path, text |-> d.text]

\* ServiceBusMessage(json.dumps(data)) sent to queue_name
ServiceBusMessage(queue_name, d) == [queue_name |-> queue_name, body |-> dumps_output(d)]

InitBatch ==
    /\ json_data \in Requests
    /\ values = <<>>
    /\ idx = 0
    /\ results = <<>>
    /\ pc = "compose_response"
    /\ response = NoResponse
    /\ exc = NoException
    /\ queue = <<>>
    /\ send_outcome = <<>>
    /\ submitted = <<>>

\* LoadValues reading the list with .get('values', []) instead of ['values']
LoadValues_DefaultEmpty ==
    /\ pc = "compose_response"
    /\ values' = IF "values" \in DOMAIN json_data THEN json_data.values ELSE <<>>
    /\ idx' = 1
    /\ pc' = "for"
    /\ UNCHANGED <<json_data, results, response, exc, queue, send_outcome, submitted>>

\* values = json.loads(json_data)['values']; results["values"] = []
LoadValues ==
    /\ pc = "compose_response"
    /\ IF "values" \in DOMAIN json_data
       THEN /\ values' = json_data.values
            /\ idx' = 1
            /\ pc' = "for"
            /\ exc' = exc
       ELSE /\ exc' = "KeyError: 'values'"
            /\ pc' = "raised"
            /\ UNCHANGED <<values, idx>>
    /\ UNCHANGED <<json_data, results, response, queue, send_outcome, submitted>>

\* transform_value up to the end of the validation block, for values[idx]
Validate ==
    /\ pc = "for"
    /\ idx <= Len(values)
    /\ LET value == values[idx] IN
       IF "recordId" \notin DOMAIN value
       THEN \* value['recordId'] raises KeyError; only AssertionError is caught
            /\ exc' = "KeyError: 'recordId'"
            /\ pc' = "raised"
            /\ UNCHANGED <<idx, results, send_outcome>>
       ELSE IF ValidationError(value) # ""
       THEN /\ results' = Append(results, ValidationFailure(value.recordId, ValidationError(value)))
            /\ send_outcome' = Append(send_outcome, NotSent)
            /\ idx' = idx + 1
            /\ UNCHANGED <<pc, exc>>
       ELSE /\ pc' = "send_to_queue"
            /\ UNCHANGED <<idx, results, exc, send_outcome>>
    /\ UNCHANGED <<json_data, values, response, queue, submitted>>

\* send_to_queue(output, queue_name="openai_queue") returns; the success record is appended
SendOk ==
    /\ pc = "send_to_queue"
    /\ LET value == values[idx] IN
       /\ queue' = Append(queue, ServiceBusMessage("openai_queue", Output(value.data)))
       /\ submitted' = Append(submitted, ServiceBusMessage("openai_queue", Output(value.data)))
       /\ results' = Append(results, Success(value.recordId))
    /\ send_outcome' = Append(send_outcome, Sent)
    /\ idx' = idx + 1
    /\ pc' = "for"
    /\ UNCHANGED <<json_data, values, response, exc>>

\* SendRaises without the 'except Exception' handler: e leaves transform_value
SendRaises_Uncaught(e) ==
    /\ pc = "send_to_queue"
    /\ exc' = e
    /\ pc' = "raised"
    /\ UNCHANGED <<json_data, values, idx, results, response, queue, send_outcome, submitted>>

\* send_to_queue raises e; 'except Exception' turns it into a per-record error
SendRaises(e) ==
    /\ pc = "send_to_queue"
    /\ results' = Append(results, SendFailure(values[idx].recordId, e))
    /\ submitted' = Append(submitted, ServiceBusMessage("openai_queue", Output(values[idx].data)))
    /\ send_outcome' = Append(send_outcome, e)
    /\ idx' = idx + 1
    /\ pc' = "for"
    /\ UNCHANGED <<json_data, values, response, exc, queue>>

\* return json.dumps(results, ensure_ascii=False)
Return ==
    /\ pc = "for"
    /\ idx > Len(values)
    /\ response' = dumps_results(results)
    /\ pc' = "done"
    /\ UNCHANGED <<json_data, values, idx, results, exc, queue, send_outcome, submitted>>

\* no batch invocation in progress
IdleBatch ==
    /\ json_data = [values |-> <<>>]
    /\ values = <<>>
    /\ idx = 0
    /\ results = <<>>
    /\ pc = "idle"
    /\ response = NoResponse
    /\ exc = NoException
    /\ queue = <<>>
    /\ send_outcome = <<>>
    /\ submitted = <<>>

(***************************************************************************)
(* get_openai_response, get_openai_completion, get_openai_chat_completion  *)
(* under @retry(wait=wait_random_exponential(min=1, max=20),               *)
(*              stop=stop_after_attempt(6))                                *)
(***************************************************************************)
MaxBackendFails == 7

StopAfterAttempt == 6
WaitMin == 1
WaitMax == 20

NoResult == "<no result>"

\* the module-level parameters with no environment variable set
DefaultConfig ==
    [MODEL |-> "gpt-4o", TEMPERATURE |-> "0.7", MAX_TOKENS |-> 800, TOP_P |-> "0.95",
     FREQUENCY_PENALTY |-> "0.0", PRESENCE_PENALTY |-> "0.0",
     PROMPT |-> "You are a JSON formatter", MODEL_TYPE |-> "text"]

\* a deployment that sets every OPENAI_* variable
CustomConfig ==
    [MODEL |-> "gpt-35-turbo", TEMPERATURE |-> "0.2", MAX_TOKENS |-> 256, TOP_P |-> "0.5",
     FREQUENCY_PENALTY |-> "0.1", PRESENCE_PENALTY |-> "0.3",
     PROMPT |-> "Classify the conversation", MODEL_TYPE |-> "text"]

\* os.getenv('OPENAI_MODEL_TYPE', 'text').lower() for the settings modelled
lower(s) == IF s = "Chat" THEN "chat" ELSE s

Configs ==
    {[c EXCEPT !.MODEL_TYPE = lower(t)] :
        c \in {DefaultConfig, CustomConfig}, t \in {"text", "chat", "Chat"}}

InputTexts == {"agent: hi"}
PromptArgs == {"", "Translate"}
BackendReplies == {"{summary}", ""}
BackendErrors == {"RateLimitError", "APITimeoutError"}

\* prompt = PROMPT if prompt == '' else prompt
EffectivePrompt(p) == IF p = "" THEN config.PROMPT ELSE p

\* the keyword arguments of client.completion.create(...)
CompletionRequest(t, p) ==
    [api |-> "completion",
     engine |-> config.MODEL,
     prompt |-> t \o ":\n\n" \o EffectivePrompt(p),
     temperature |-> config.TEMPERATURE,
     max_tokens |-> config.MAX_TOKENS,
     top_p |-> config.TOP_P,
     frequency_penalty |-> config.FREQUENCY_PENALTY,
     presence_penalty |-> config.PRESENCE_PENALTY]

\* the keyword arguments of client.chat.completions.create(...)
ChatRequest(t, p) ==
    [api |-> "chat",
     model |-> config.MODEL,
     messages |-> <<[role |-> "system", content |-> EffectivePrompt(p)],
                    [role |-> "user", content |-> t]>>,
     temperature |-> "0.7",
     max_tokens |-> 800,
     top_p |-> "0.95",
     stop |-> "None"]

\* get_openai_response: the strategy chosen by MODEL_TYPE
Request(t, p) ==
    IF config.MODEL_TYPE = "chat" THEN ChatRequest(t, p) ELSE CompletionRequest(t, p)

\* the response object of the backend for a request it answers
BackendResponse(req) ==
    IF req.api = "chat"
    THEN [choices |-> <<[message |-> [content |-> backend_reply]]>>]
    ELSE [choices |-> <<[text |-> backend_reply]>>]

\* response['choices'][0]['text'] / response.choices[0].message.content
Content(req, resp) ==
    IF req.api = "chat" THEN resp.choices[1].message.content ELSE resp.choices[1].text

\* stop_after_attempt(6) that lets a seventh attempt through
stop_after_attempt_OffByOne(n) == n > StopAfterAttempt

\* stop_after_attempt(6): stop once the attempt that just failed is the 6th
stop_after_attempt(n) == n >= StopAfterAttempt

Min(a, b) == IF a < b THEN a ELSE b

\* wait_random_exponential(min=1, max=20) after failed attempt n, in whole time
\* units: a draw between min and min(max, 2^(n-1))
wait_random_exponential(n) == WaitMin..Min(WaitMax, 2 ^ (n - 1))

InitGen ==
    /\ config \in Configs
    /\ text \in InputTexts
    /\ prompt \in PromptArgs
    /\ backend_fails \in 0..MaxBackendFails
    /\ backend_reply \in BackendReplies
    /\ gen_pc = "get_openai_response"
    /\ attempt_number = 0
    /\ api_calls = <<>>
    /\ sleep = 0
    /\ gen_result = NoResult
    /\ gen_exc = NoException

\* get_openai_response dispatches on MODEL_TYPE; tenacity starts attempt 1
Dispatch ==
    /\ gen_pc = "get_openai_response"
    /\ gen_pc' = "attempt"
    /\ attempt_number' = 1
    /\ UNCHANGED <<config, text, prompt, backend_fails, backend_reply, api_calls, sleep,
                   gen_result, gen_exc>>

\* one attempt whose backend call answers: the content is returned
AttemptReturns ==
    /\ gen_pc = "attempt"
    /\ Len(api_calls) >= backend_fails
    /\ LET req == Request(text, prompt) IN
       /\ api_calls' = Append(api_calls, req)
       /\ gen_result' = Content(req, BackendResponse(req))
    /\ gen_pc' = "returned"
    /\ UNCHANGED <<config, text, prompt, attempt_number, backend_fails, backend_reply, sleep,
                   gen_exc>>

\* one attempt whose backend call raises e: retry unless stop_after_attempt says stop,
\* in which case tenacity raises RetryError from e
AttemptRaises(e) ==
    /\ gen_pc = "attempt"
    /\ Len(api_calls) < backend_fails
    /\ api_calls' = Append(api_calls, Request(text, prompt))
    /\ IF stop_after_attempt(attempt_number)
       THEN /\ gen_pc' = "raised"
            /\ gen_exc' = "RetryError[" \o e \o "]"
       ELSE /\ gen_pc' = "sleep"
            /\ gen_exc' = gen_exc
    /\ UNCHANGED <<config, text, prompt, attempt_number, backend_fails, backend_reply, sleep,
                   gen_result>>

\* tenacity sleeps the drawn wait w and starts the next attempt
Sleep(w) ==
    /\ gen_pc = "sleep"
    /\ w \in wait_random_exponential(attempt_number)
    /\ sleep' = w
    /\ attempt_number' = attempt_number + 1
    /\ gen_pc' = "attempt"
    /\ UNCHANGED <<config, text, prompt, backend_fails, backend_reply, api_calls, gen_result,
                   gen_exc>>

\* no generate call in progress
IdleGen ==
    /\ config = DefaultConfig
    /\ text = ""
    /\ prompt = ""
    /\ backend_fails = 0
    /\ backend_reply = ""
    /\ gen_pc = "idle"
    /\ attempt_number = 0
    /\ api_calls = <<>>
    /\ sleep = 0
    /\ gen_result = NoResult
    /\ gen_exc = NoException

\*SPECS

(***************************************************************************)
(* push_to_ACS                                                             *)
(*                                                                         *)
(* A string is the sequence of its tokens: words, and the separators       *)
(* "," ":" and " " each as a token of their own. A Python value is a       *)
(* record of its type and its repr.                                        *)
(***************************************************************************)
MaxSpecs == 2

PyStr(s) == [type |-> "str", repr |-> s]
PyInt(s) == [type |-> "int", repr |-> s]
PyFloat(s) == [type |-> "float", repr |-> s]
PyBool(b) == [type |-> "bool", repr |-> IF b THEN "True" ELSE "False"]
None == [type |-> "NoneType", repr |-> "None"]

PyList(items) == [list |-> items]
PyDict(d) == [dict |-> d]

\* str.replace(' ', '')
replace_spaces(s) == SelectSeq(s, LAMBDA t : t # " ")

\* position of the first token sep in s, 0 when there is none
RECURSIVE find(_, _, _)
find(s, sep, i) ==
    IF i > Len(s) THEN 0
    ELSE IF s[i] = sep THEN i
    ELSE find(s, sep, i + 1)

\* str.split(sep): '' splits into ['']
RECURSIVE split(_, _)
split(s, sep) ==
    LET i == find(s, sep, 1) IN
    IF i = 0 THEN <<s>>
    ELSE <<SubSeq(s, 1, i - 1)>> \o split(SubSeq(s, i + 1, Len(s)), sep)

\* the Python string of a token sequence
RECURSIVE join(_)
join(s) == IF s = <<>> THEN "" ELSE s[1] \o join(Tail(s))

\* the strings of the modelled values that int() and float() parse
IntLiterals == {"5", "7"}

Coerced(v) == [error |-> "", value |-> v]
Raised(e) == [error |-> e, value |-> None]

\* str(x)
str(v) == Coerced(PyStr(v.repr))

\* int(x) that hands the value back as it came
int_NoCast(v) == Coerced(v)

\* int(x)
int(v) ==
    CASE v.type = "int" -> Coerced(v)
      [] v.type = "str" -> IF v.repr \in IntLiterals THEN Coerced(PyInt(v.repr))
                           ELSE Raised("ValueError")
      [] v.type = "bool" -> Coerced(PyInt(IF v.repr = "True" THEN "1" ELSE "0"))
      [] OTHER -> Raised("TypeError")

\* float(x)
float(v) ==
    CASE v.type = "int" -> Coerced(PyFloat(v.repr \o ".0"))
      [] v.type = "str" -> IF v.repr \in IntLiterals THEN Coerced(PyFloat(v.repr \o ".0"))
                           ELSE Raised("ValueError")
      [] v.type = "bool" -> Coerced(PyFloat(IF v.repr = "True" THEN "1.0" ELSE "0.0"))
      [] OTHER -> Raised("TypeError")

\* bool(x)
bool(v) ==
    CASE v.type = "str" -> Coerced(PyBool(v.repr # ""))
      [] v.type = "int" -> Coerced(PyBool(v.repr # "0"))
      [] v.type = "bool" -> Coerced(v)
      [] OTHER -> Coerced(PyBool(FALSE))

SearchTypes == {"Edm.String", "Edm.Int32", "Edm.Int64", "Edm.Double", "Edm.Boolean"}

\* the cast of the if/elif chain for a recognised search_type
Cast(search_type, v) ==
    CASE search_type = "Edm.String" -> str(v)
      [] search_type = "Edm.Int32" -> int(v)
      [] search_type = "Edm.Int64" -> int(v)
      [] search_type = "Edm.Double" -> float(v)
      [] search_type = "Edm.Boolean" -> bool(v)

\* data['output'][key]
Lookup(output, key) ==
    IF "list" \in DOMAIN output THEN Raised("TypeError")
    ELSE IF key \notin DOMAIN output.dict THEN Raised("KeyError")
    ELSE Coerced(output.dict[key])

\* one pass of the loop body for the list element entry: the unpacking of
\* entry.split(':'), the if/elif chain, the lookup and the cast.
\* status 500 is the 'else' branch; error names the exception that leaves the loop
MapEntry(entry, output) ==
    LET parts == split(entry, ":") IN
    IF Len(parts) # 3 THEN [status |-> 0, error |-> "ValueError", key |-> "", value |-> None]
    ELSE LET key == join(parts[1])
             search_type == join(parts[2])
         IN IF search_type \notin SearchTypes
            THEN [status |-> 500, error |-> "", key |-> key, value |-> None]
            ELSE LET found == Lookup(output, key) IN
                 IF found.error # ""
                 THEN [status |-> 0, error |-> found.error, key |-> key, value |-> None]
                 ELSE LET cast == Cast(search_type, found.value) IN
                      [status |-> 0, error |-> cast.error, key |-> key, value |-> cast.value]

\* the check "data['output'] == []" made with {} in place of []
IsNoOutput_EmptyDict(output) == output = PyDict(<<>>)

\* data['output'] == []
IsNoOutput(output) == output = PyList(<<>>)

\* the initial body_value with the 'upload' action
InitialBodyValue_Upload(d) ==
    [k \in {"@search.action", "metadata_storage_path"} |->
        IF k = "@search.action" THEN PyStr("upload") ELSE PyStr(d.metadata_storage_path)]

\* body_value = {'@search.action': 'merge', 'metadata_storage_path': data[...]}
InitialBodyValue(d) ==
    [k \in {"@search.action", "metadata_storage_path"} |->
        IF k = "@search.action" THEN PyStr("merge") ELSE PyStr(d.metadata_storage_path)]

search_service == "svc"
index_name == "docs"
api_version == "2023-11-01"
api_key == "secret"

\* PostRequest with 'body' kept at module level: each call appends to the
\* 'value' list of the call before
PostRequest_SharedBody(bv) ==
    [url |-> "https://" \o search_service \o ".search.windows.net/indexes/" \o index_name
                 \o "/docs/index?api-version=" \o api_version,
     headers |-> [ContentType |-> "application/json", apikey |-> api_key],
     json |-> [value |-> (IF http_requests = <<>> THEN <<>>
                          ELSE http_requests[Len(http_requests)].json.value) \o <<bv>>]]

\* requests.post(url, headers=headers, json=body) with body['value'] = [body_value]
PostRequest(bv) ==
    [url |-> "https://" \o search_service \o ".search.windows.net/indexes/" \o index_name
                 \o "/docs/index?api-version=" \o api_version,
     headers |-> [ContentType |-> "application/json", apikey |-> api_key],
     json |-> [value |-> <<bv>>]]

\* the status handed back with every failing answer reported as 500
status_code_Collapsed(answer) == IF answer.status < 400 THEN answer.status ELSE 500

\* response.status_code
status_code(answer) == answer.status

\* the field-spec entries configurations are built from
SpecEntries ==
    {<<"summary", ":", "Edm.String", ":", "x">>,
     <<"count", ":", "Edm.Int32", ":", "x">>,
     <<" ", "count", ":", "Edm.Int64", ":", "x">>,
     <<"summary", ":", "Edm.Double", ":", "x">>,
     <<"count", ":", " ", "Edm.Boolean", ":", "x">>,
     <<"summary", ":", "Edm.DateTimeOffset", ":", "x">>,
     <<"summary">>}

RECURSIVE join_entries(_)
join_entries(es) ==
    IF es = <<>> THEN <<>>
    ELSE IF Len(es) = 1 THEN es[1]
    ELSE es[1] \o <<",">> \o join_entries(Tail(es))

\* the configuration strings: up to MaxSpecs entries joined by commas
PromptKeyStrings ==
    {join_entries(es) : es \in UNION {[1..n -> SpecEntries] : n \in 0..MaxSpecs}}

OutputKeys == {"summary", "count"}
SourceValues == {PyStr("5"), PyStr("abc"), PyInt("7"), None}

Outputs ==
    {PyList(<<>>)}
        \cup {PyDict(d) : d \in UNION {[S -> SourceValues] : S \in SUBSET OutputKeys}}

StatusCodes == {200, 207, 400, 503}
PostErrors == {"ConnectionError"}

InitACS ==
    /\ OPENAI_PROMPT_KEYS \in PromptKeyStrings
    /\ data \in [metadata_storage_path : Paths, output : Outputs]
    /\ acs_pc = "push_to_ACS"
    /\ keys = <<>>
    /\ key_idx = 0
    /\ body_value = <<>>
    /\ http_requests = <<>>
    /\ http_answers = <<>>
    /\ acs_result = 0
    /\ acs_exc = NoException

\* lines 86-104: build body_value, return 200 on no output, else start the loop
Begin ==
    /\ acs_pc = "push_to_ACS"
    /\ body_value' = InitialBodyValue(data)
    /\ IF IsNoOutput(data.output)
       THEN /\ acs_result' = 200
            /\ acs_pc' = "returned"
            /\ UNCHANGED <<keys, key_idx>>
       ELSE /\ keys' = split(replace_spaces(OPENAI_PROMPT_KEYS), ",")
            /\ key_idx' = 1
            /\ acs_pc' = "for"
            /\ acs_result' = acs_result
    /\ UNCHANGED <<OPENAI_PROMPT_KEYS, data, http_requests, http_answers, acs_exc>>

\* one iteration of the loop over the field specs
MapField ==
    /\ acs_pc = "for"
    /\ key_idx <= Len(keys)
    /\ LET m == MapEntry(keys[key_idx], data.output) IN
       IF m.status = 500
       THEN /\ acs_result' = 500
            /\ acs_pc' = "returned"
            /\ UNCHANGED <<key_idx, body_value, acs_exc>>
       ELSE IF m.error # ""
       THEN /\ acs_exc' = m.error
            /\ acs_pc' = "raised"
            /\ UNCHANGED <<key_idx, body_value, acs_result>>
       ELSE /\ body_value' = (m.key :> m.value) @@ body_value
            /\ key_idx' = key_idx + 1
            /\ UNCHANGED <<acs_pc, acs_result, acs_exc>>
    /\ UNCHANGED <<OPENAI_PROMPT_KEYS, data, keys, http_requests, http_answers>>

\* lines 120-125: the document is posted and the endpoint answers with status s
Post(s) ==
    /\ acs_pc = "for"
    /\ key_idx > Len(keys)
    /\ http_requests' = Append(http_requests, PostRequest(body_value))
    /\ http_answers' = Append(http_answers, [status |-> s, error |-> ""])
    /\ acs_result' = status_code([status |-> s, error |-> ""])
    /\ acs_pc' = "returned"
    /\ UNCHANGED <<OPENAI_PROMPT_KEYS, data, keys, key_idx, body_value, acs_exc>>

\* lines 120-123: the document is posted and requests.post raises e
PostRaises(e) ==
    /\ acs_pc = "for"
    /\ key_idx > Len(keys)
    /\ http_requests' = Append(http_requests, PostRequest(body_value))
    /\ http_answers' = Append(http_answers, [status |-> 0, error |-> e])
    /\ acs_exc' = e
    /\ acs_pc' = "raised"
    /\ UNCHANGED <<OPENAI_PROMPT_KEYS, data, keys, key_idx, body_value, acs_result>>

\* no push_to_ACS call in progress
IdleACS ==
    /\ OPENAI_PROMPT_KEYS = <<"summary">>
    /\ data = [metadata_storage_path |-> "", output |-> PyList(<<>>)]
    /\ acs_pc = "idle"
    /\ keys = <<>>
    /\ key_idx = 0
    /\ body_value = <<>>
    /\ http_requests = <<>>
    /\ http_answers = <<>>
    /\ acs_result = 0
    /\ acs_exc = NoException

(***************************************************************************)
(* Concurrent invocations of compose_response: the same statements as      *)
(* above, each invocation on its own frame of locals, the Service Bus      *)
(* shared                                                                  *)
(***************************************************************************)
MaxConcurrentBatch == 2

Invocations == {1, 2}

ConcurrentItems ==
    {[recordId |-> "1", data |-> [metadata_storage_path |-> "/a", text |-> "hello"]],
     [recordId |-> "2", data |-> [metadata_storage_path |-> "/b"]],
     [data |-> [metadata_storage_path |-> "/a", text |-> "hello"]]}

ConcurrentBatches == UNION {[1..n -> ConcurrentItems] : n \in 0..MaxConcurrentBatch}

\* the frame of a call that has not run a statement yet
NewFrame(vs) ==
    [json_data |-> [values |-> vs], values |-> <<>>, idx |-> 0, results |-> <<>>,
     pc |-> "compose_response", response |-> NoResponse, exc |-> NoException,
     send_outcome |-> <<>>]

\* results kept in one module-level dict, that of invocation 1's frame
ResultsFrame_Global(i) == 1

\* 'results = {}' is a local of each call: invocation i appends to its own
ResultsFrame(i) == i

InitConcurrent ==
    /\ invocation \in {[i \in Invocations |-> NewFrame(b[i])] :
                          b \in [Invocations -> ConcurrentBatches]}
    /\ bus = <<>>

\* LoadValues of invocation i
CLoadValues(i) ==
    /\ invocation[i].pc = "compose_response"
    /\ invocation' = [invocation EXCEPT ![i].values = invocation[i].json_data.values,
                                        ![i].idx = 1,
                                        ![i].pc = "for"]
    /\ bus' = bus

\* Validate of invocation i
CValidate(i) ==
    LET f == invocation[i]
        value == f.values[f.idx]
    IN /\ f.pc = "for"
       /\ f.idx <= Len(f.values)
       /\ IF "recordId" \notin DOMAIN value
          THEN invocation' = [invocation EXCEPT ![i].exc = "KeyError: 'recordId'",
                                                ![i].pc = "raised"]
          ELSE IF ValidationError(value) # ""
          THEN invocation' =
                   [invocation EXCEPT
                        ![i].idx = f.idx + 1,
                        ![i].send_outcome = Append(@, NotSent),
                        ![ResultsFrame(i)].results =
                            Append(@, ValidationFailure(value.recordId, ValidationError(value)))]
          ELSE invocation' = [invocation EXCEPT ![i].pc = "send_to_queue"]
       /\ bus' = bus

\* SendOk of invocation i
CSendOk(i) ==
    LET f == invocation[i]
        value == f.values[f.idx]
    IN /\ f.pc = "send_to_queue"
       /\ bus' = Append(bus, [sender |-> i,
                              message |-> ServiceBusMessage("openai_queue", Output(value.data))])
       /\ invocation' =
              [invocation EXCEPT
                   ![i].idx = f.idx + 1,
                   ![i].pc = "for",
                   ![i].send_outcome = Append(@, Sent),
                   ![ResultsFrame(i)].results = Append(@, Success(value.recordId))]

\* SendRaises of invocation i
CSendRaises(i, e) ==
    LET f == invocation[i]
        value == f.values[f.idx]
    IN /\ f.pc = "send_to_queue"
       /\ invocation' =
              [invocation EXCEPT
                   ![i].idx = f.idx + 1,
                   ![i].pc = "for",
                   ![i].send_outcome = Append(@, e),
                   ![ResultsFrame(i)].results = Append(@, SendFailure(value.recordId, e))]
       /\ bus' = bus

\* Return of invocation i
CReturn(i) ==
    LET f == invocation[i] IN
    /\ f.pc = "for"
    /\ f.idx > Len(f.values)
    /\ invocation' =
           [invocation EXCEPT
                ![i].response = dumps_results(invocation[ResultsFrame(i)].results),
                ![i].pc = "done"]
    /\ bus' = bus

\* no concurrent invocations in progress
IdleConcurrent ==
    /\ invocation = [i \in Invocations |-> [NewFrame(<<>>) EXCEPT !.pc = "idle"]]
    /\ bus = <<>>

(***************************************************************************)
(* The search index behind the endpoint, and the second delivery of a      *)
(* queue message: push_to_ACS is called again with the same data           *)
(***************************************************************************)
MaxDeliveries == 2

NoDocument == [exists |-> FALSE, fields |-> <<>>]

\* a document indexed before any enrichment
IndexedDocument(p) ==
    [exists |-> TRUE,
     fields |-> [k \in {"metadata_storage_path", "summary"} |->
                    IF k = "summary" THEN PyStr("old") ELSE PyStr(p)]]

InitialIndexes == {[p \in Paths |-> IndexedDocument(p)], [p \in Paths |-> NoDocument]}

\* the 'merge' action: the fields of doc replace those of the stored document,
\* its other fields stay; without a stored document nothing is written
MergeDocument(ix, doc) ==
    LET p == doc["metadata_storage_path"].repr
        new == DOMAIN doc \ {"@search.action"}
    IN IF p \in DOMAIN ix /\ ix[p].exists /\ doc["@search.action"] = PyStr("merge")
       THEN [ix EXCEPT ![p].fields =
                [k \in DOMAIN ix[p].fields \cup new |->
                    IF k \in new THEN doc[k] ELSE ix[p].fields[k]]]
       ELSE ix

\* the documents of a request body applied in order
RECURSIVE MergeAll(_, _)
MergeAll(ix, docs) ==
    IF docs = <<>> THEN ix ELSE MergeAll(MergeDocument(ix, docs[1]), Tail(docs))

\* the answers followed across deliveries: applied, and refused
RedeliveryStatusCodes == {200, 503}

InitIndex ==
    /\ index \in InitialIndexes
    /\ applied = <<>>
    /\ deliveries = <<>>

\* the endpoint answers s: it has applied the request when s is 200
IndexAnswers(s) ==
    /\ index' = IF s = 200 THEN MergeAll(index, PostRequest(body_value).json.value) ELSE index
    /\ applied' = Append(applied, s = 200)
    /\ UNCHANGED deliveries

\* requests.post raised: the request was lost, or applied with its answer lost
IndexUnknown(done) ==
    /\ index' = IF done THEN MergeAll(index, PostRequest(body_value).json.value) ELSE index
    /\ applied' = Append(applied, done)
    /\ UNCHANGED deliveries

\* the queue delivers the message again: the ended call is recorded and
\* push_to_ACS starts over with the same data
Redeliver ==
    /\ acs_pc \in {"returned", "raised"}
    /\ Len(deliveries) + 1 < MaxDeliveries
    /\ deliveries' = Append(deliveries, [pc |-> acs_pc, result |-> acs_result, exc |-> acs_exc,
                                         requests |-> Len(http_requests), index |-> index])
    /\ acs_pc' = "push_to_ACS"
    /\ keys' = <<>>
    /\ key_idx' = 0
    /\ body_value' = <<>>
    /\ acs_result' = 0
    /\ acs_exc' = NoException
    /\ UNCHANGED <<OPENAI_PROMPT_KEYS, data, http_requests, http_answers, index, applied>>

\* no index in view
IdleIndex ==
    /\ index = [p \in Paths |-> NoDocument]
    /\ applied = <<>>
    /\ deliveries = <<>>

(***************************************************************************)
(* Specifications: one invocation context each, the others idle            *)
(***************************************************************************)
\* one compose_response invocation
StartBatch == InitBatch /\ IdleGen /\ IdleACS /\ IdleConcurrent /\ IdleIndex

NextBatch ==
    \/ LoadValues /\ UNCHANGED <<varsGen, varsACS, varsConcurrent, varsIndex>>
    \/ Validate /\ UNCHANGED <<varsGen, varsACS, varsConcurrent, varsIndex>>
    \/ SendOk /\ UNCHANGED <<varsGen, varsACS, varsConcurrent, varsIndex>>
    \/ \E e \in QueueErrors : SendRaises(e) /\ UNCHANGED <<varsGen, varsACS, varsConcurrent, varsIndex>>
    \/ Return /\ UNCHANGED <<varsGen, varsACS, varsConcurrent, varsIndex>>

SpecBatch == StartBatch /\ [][NextBatch]_vars

\* one get_openai_response call
StartGenerate == InitGen /\ IdleBatch /\ IdleACS /\ IdleConcurrent /\ IdleIndex

NextGen ==
    \/ Dispatch /\ UNCHANGED <<varsBatch, varsACS, varsConcurrent, varsIndex>>
    \/ AttemptReturns /\ UNCHANGED <<varsBatch, varsACS, varsConcurrent, varsIndex>>
    \/ \E e \in BackendErrors : AttemptRaises(e) /\ UNCHANGED <<varsBatch, varsACS, varsConcurrent, varsIndex>>
    \/ \E w \in WaitMin..WaitMax : Sleep(w) /\ UNCHANGED <<varsBatch, varsACS, varsConcurrent, varsIndex>>

SpecGenerate == StartGenerate /\ [][NextGen]_vars

\* one push_to_ACS call
StartPublish == InitACS /\ IdleBatch /\ IdleGen /\ IdleConcurrent /\ IdleIndex

NextPublish ==
    \/ Begin /\ UNCHANGED <<varsBatch, varsGen, varsConcurrent, varsIndex>>
    \/ MapField /\ UNCHANGED <<varsBatch, varsGen, varsConcurrent, varsIndex>>
    \/ \E s \in StatusCodes : Post(s) /\ UNCHANGED <<varsBatch, varsGen, varsConcurrent, varsIndex>>
    \/ \E e \in PostErrors : PostRaises(e) /\ UNCHANGED <<varsBatch, varsGen, varsConcurrent, varsIndex>>

SpecPublish == StartPublish /\ [][NextPublish]_vars

\* two compose_response invocations, their steps interleaved in any order
StartConcurrent == InitConcurrent /\ IdleBatch /\ IdleGen /\ IdleACS /\ IdleIndex

NextConcurrent ==
    \/ \E i \in Invocations : CLoadValues(i) /\ UNCHANGED <<varsBatch, varsGen, varsACS, varsIndex>>
    \/ \E i \in Invocations : CValidate(i) /\ UNCHANGED <<varsBatch, varsGen, varsACS, varsIndex>>
    \/ \E i \in Invocations : CSendOk(i) /\ UNCHANGED <<varsBatch, varsGen, varsACS, varsIndex>>
    \/ \E i \in Invocations, e \in QueueErrors :
           CSendRaises(i, e) /\ UNCHANGED <<varsBatch, varsGen, varsACS, varsIndex>>
    \/ \E i \in Invocations : CReturn(i) /\ UNCHANGED <<varsBatch, varsGen, varsACS, varsIndex>>

SpecConcurrent == StartConcurrent /\ [][NextConcurrent]_vars

\* one enrichment result published once per delivery of its queue message
StartRepublish == InitACS /\ InitIndex /\ IdleBatch /\ IdleGen /\ IdleConcurrent

NextRepublish ==
    \/ Begin /\ UNCHANGED <<varsBatch, varsGen, varsConcurrent, varsIndex>>
    \/ MapField /\ UNCHANGED <<varsBatch, varsGen, varsConcurrent, varsIndex>>
    \/ \E s \in RedeliveryStatusCodes :
           Post(s) /\ IndexAnswers(s) /\ UNCHANGED <<varsBatch, varsGen, varsConcurrent>>
    \/ \E e \in PostErrors, done \in BOOLEAN :
           PostRaises(e) /\ IndexUnknown(done) /\ UNCHANGED <<varsBatch, varsGen, varsConcurrent>>
    \/ Redeliver /\ UNCHANGED <<varsBatch, varsGen, varsConcurrent>>

SpecRepublish == StartRepublish /\ [][NextRepublish]_vars

(***************************************************************************)
(* Properties of the batch path                                            *)
(***************************************************************************)
HasRecordId(value) == "recordId" \in DOMAIN value

IsValid(value) ==
    /\ HasRecordId(value)
    /\ "data" \in DOMAIN value
    /\ {"metadata_storage_path", "text"} \subseteq DOMAIN value.data

BatchEnded == pc \in {"done", "raised"}

\* the items of the request, <<>> when it has no 'values' key
Input == IF "values" \in DOMAIN json_data THEN json_data.values ELSE <<>>

\* the first field missing from value, in the order data, metadata_storage_path, text
FirstMissingField(value) ==
    IF "data" \notin DOMAIN value THEN "data"
    ELSE IF "metadata_storage_path" \notin DOMAIN value.data THEN "metadata_storage_path"
    ELSE "text"

RequiredMessage(field) ==
    "Error:'" \o field \o "' field is required"
        \o (IF field = "data" THEN "." ELSE " in 'data' object.")

\* every item the loop has passed has its output record at the same position
ResultsFollowLoop ==
    /\ Len(results) = Len(send_outcome)
    /\ pc \in {"for", "send_to_queue", "done"} => Len(results) = idx - 1

\* C1 (as claimed): when a batch holding an item without 'recordId' has been
\* processed, compose_response has returned an envelope that holds one result
\* for each item with a recordId and none for the others, so fewer results
\* than input items.
C1_MissingRecordIdOmitted ==
    (BatchEnded /\ \E i \in 1..Len(Input) : ~HasRecordId(Input[i]))
        => /\ pc = "done"
           /\ response # NoResponse
           /\ Len(results) = Cardinality({i \in 1..Len(Input) : HasRecordId(Input[i])})
           /\ Len(results) < Len(Input)

\* C2: an item with a recordId that lacks data, data.metadata_storage_path or
\* data.text gets a Failure with its recordId and exactly one error entry,
\* which names the first missing field in the order data,
\* metadata_storage_path, text.
C2_FirstMissingFieldReported ==
    /\ ResultsFollowLoop
    /\ \A j \in 1..Len(results) :
          (HasRecordId(values[j]) /\ ~IsValid(values[j]))
              => /\ DOMAIN results[j] = {"recordId", "errors"}
                 /\ results[j].recordId = values[j].recordId
                 /\ Len(results[j].errors) = 1
                 /\ results[j].errors[1] =
                        [message |-> RequiredMessage(FirstMissingField(values[j]))]

\* a finished batch held an item whose data lacks both fields, and its single
\* error names metadata_storage_path
C2_Witness ==
    /\ pc = "done"
    /\ \E j \in 1..Len(results) :
          /\ "data" \in DOMAIN values[j]
          /\ DOMAIN values[j].data = {}
          /\ results[j].errors =
                 <<[message |-> "Error:'metadata_storage_path' field is required in 'data' object."]>>

\* C3: a valid item whose queue send returned gets the success record
\* {recordId, data: {status: "Processing document"}} with its own recordId and
\* no 'errors' field.
C3_SuccessAcknowledged ==
    /\ ResultsFollowLoop
    /\ \A j \in 1..Len(results) :
          IsValid(values[j]) => send_outcome[j] # NotSent
    /\ \A j \in 1..Len(results) :
          send_outcome[j] = Sent
              => /\ IsValid(values[j])
                 /\ DOMAIN results[j] = {"recordId", "data"}
                 /\ results[j].recordId = values[j].recordId
                 /\ results[j].data = [status |-> "Processing document"]

\* a finished batch acknowledged an item with recordId "2"
C3_Witness ==
    /\ pc = "done"
    /\ \E j \in 1..Len(results) :
          /\ send_outcome[j] = Sent
          /\ values[j].recordId = "2"
          /\ results[j] = [recordId |-> "2", data |-> [status |-> "Processing document"]]

\* C4: a valid item whose queue send raised e gets a Failure with its recordId
\* and the single message "Could not complete operation for record. <e>", and
\* e never leaves transform_value or compose_response: the batch goes on.
C4_SendFailureDowngraded ==
    /\ ResultsFollowLoop
    /\ exc \notin QueueErrors
    /\ \A j \in 1..Len(results) :
          send_outcome[j] \in QueueErrors
              => /\ IsValid(values[j])
                 /\ DOMAIN results[j] = {"recordId", "errors"}
                 /\ results[j].recordId = values[j].recordId
                 /\ results[j].errors =
                        <<[message |-> "Could not complete operation for record. "
                                           \o send_outcome[j]]>>

\* a batch whose first send raised went on and returned its envelope
C4_Witness ==
    /\ pc = "done"
    /\ Len(results) >= 2
    /\ send_outcome[1] = "unauthorized"
    /\ results[1].errors[1].message = "Could not complete operation for record. unauthorized"

\* a batch in which every item has a recordId returns one result per item, in
\* input order, whatever failures its items yield
FailuresDoNotBlockSiblings ==
    (BatchEnded /\ \A i \in 1..Len(Input) : HasRecordId(Input[i]))
        => /\ "values" \in DOMAIN json_data => pc = "done"
           /\ Len(results) = Len(Input)
           /\ \A j \in 1..Len(Input) : results[j].recordId = Input[j].recordId

\* C11 (as claimed): for every batch, the output holds exactly one result for
\* each item that has a recordId, with that recordId, in input order.
C11_OneResultPerKeptItemInOrder ==
    (BatchEnded /\ "values" \in DOMAIN json_data)
        => LET kept == SelectSeq(Input, HasRecordId) IN
           /\ pc = "done"
           /\ response # NoResponse
           /\ Len(results) = Len(kept)
           /\ \A j \in 1..Len(kept) : results[j].recordId = kept[j].recordId

\* C12: a request without a 'values' key fails as a whole with a KeyError: no
\* item is transformed, nothing is enqueued and no envelope is returned.
C12_MissingValuesIsFatal ==
    "values" \notin DOMAIN json_data
        => /\ pc \in {"compose_response", "raised"}
           /\ pc = "raised" => exc = "KeyError: 'values'"
           /\ values = <<>>
           /\ results = <<>>
           /\ send_outcome = <<>>
           /\ submitted = <<>>
           /\ queue = <<>>
           /\ response = NoResponse

\* compose_response raised on a request without 'values'
C12_Witness ==
    /\ "values" \notin DOMAIN json_data
    /\ pc = "raised"
    /\ exc = "KeyError: 'values'"
    /\ response = NoResponse

\* the JSON body {"metadata_storage_path": p, "text": t}
MessageBody(p, t) ==
    "{\"metadata_storage_path\": \"" \o p \o "\", \"text\": \"" \o t \o "\"}"

\* the messages due for the items of vs: one per valid item, in order
RECURSIVE Projection(_)
Projection(vs) ==
    IF vs = <<>> THEN <<>>
    ELSE (IF IsValid(vs[1])
          THEN <<[queue_name |-> "openai_queue",
                  body |-> MessageBody(vs[1].data.metadata_storage_path, vs[1].data.text)]>>
          ELSE <<>>) \o Projection(Tail(vs))

CarriesPrompt(req, p) ==
    IF req.api = "chat"
    THEN /\ req.messages[1] = [role |-> "system", content |-> p]
         /\ req.messages[2] = [role |-> "user", content |-> text]
    ELSE req.prompt = text \o ":\n\n" \o p

\* the prompt due for the call: the configured one unless a non-empty override is passed
DuePrompt == IF prompt # "" THEN prompt ELSE config.PROMPT

\* the request carries the configured value of a parameter: it sends that
\* value, or omits the parameter when the configured value is the backend's default
Carries(req, name, configured, backend_default) ==
    IF name \in DOMAIN req THEN req[name] = configured ELSE configured = backend_default

\* in both strategies every request, retries included, is for the configured
\* deployment and carries the due prompt
PromptAndModelCarried ==
    \A k \in 1..Len(api_calls) :
        /\ CarriesPrompt(api_calls[k], DuePrompt)
        /\ IF api_calls[k].api = "chat" THEN api_calls[k].model = config.MODEL
           ELSE api_calls[k].engine = config.MODEL

\* C14 (as claimed): in both strategies every request, retries included,
\* carries the configured model, temperature, max tokens, top-p, frequency
\* penalty and presence penalty, and the configured prompt unless a non-empty
\* override is passed, which is then used.
C14_ConfiguredParametersSent ==
    /\ PromptAndModelCarried
    /\ \A k \in 1..Len(api_calls) :
          LET req == api_calls[k] IN
          /\ Carries(req, "temperature", config.TEMPERATURE, "1.0")
          /\ "max_tokens" \in DOMAIN req /\ req.max_tokens = config.MAX_TOKENS
          /\ Carries(req, "top_p", config.TOP_P, "1.0")
          /\ Carries(req, "frequency_penalty", config.FREQUENCY_PENALTY, "0.0")
          /\ Carries(req, "presence_penalty", config.PRESENCE_PENALTY, "0.0")

(***************************************************************************)
(* Properties of push_to_ACS                                               *)
(***************************************************************************)
PublishEnded == acs_pc \in {"returned", "raised"}

\* the entries of the configured string, and the parts of each
Entries == split(replace_spaces(OPENAI_PROMPT_KEYS), ",")
Parts(entry) == split(entry, ":")
IsFieldSpec(entry) == Len(Parts(entry)) = 3
FieldKey(entry) == join(Parts(entry)[1])
FieldType(entry) == join(Parts(entry)[2])

AllFieldSpecs == \A i \in 1..Len(Entries) : IsFieldSpec(Entries[i])

HasUnknownTag ==
    \E i \in 1..Len(Entries) : IsFieldSpec(Entries[i]) /\ FieldType(Entries[i]) \notin SearchTypes

\* the key of the FieldSpec is in the output and its value takes the declared type
Coercible(entry, output) ==
    /\ IsFieldSpec(entry)
    /\ FieldType(entry) \in SearchTypes
    /\ "dict" \in DOMAIN output
    /\ FieldKey(entry) \in DOMAIN output.dict
    /\ Cast(FieldType(entry), output.dict[FieldKey(entry)]).error = ""

PassesTypeMapping == \A i \in 1..Len(Entries) : Coercible(Entries[i], data.output)

\* a request is posted only when every FieldSpec has been looked up and coerced,
\* and the posted document holds every FieldSpec key
NoPartialDocument ==
    \A r \in 1..Len(http_requests) :
        /\ PassesTypeMapping
        /\ \A i \in 1..Len(Entries) :
              FieldKey(Entries[i]) \in DOMAIN http_requests[r].json.value[1]

\* C6 (as claimed): a request is sent only after every FieldSpec has been
\* looked up and coerced, and whenever the mapping runs over a configuration
\* in which some FieldSpec carries an unrecognised type tag, push_to_ACS
\* returns 500 and sends no request.
C6_UnknownTagRejected ==
    /\ NoPartialDocument
    /\ (PublishEnded /\ data.output # PyList(<<>>) /\ AllFieldSpecs /\ HasUnknownTag)
           => /\ acs_pc = "returned"
              /\ acs_result = 500
              /\ http_requests = <<>>

\* C7 (as claimed): when a FieldSpec key is missing from the output or its
\* value cannot be coerced to the declared type, push_to_ACS returns 500
\* without contacting the index.
C7_MissingOrUncoercibleIs500 ==
    (PublishEnded /\ "dict" \in DOMAIN data.output /\ AllFieldSpecs /\ ~HasUnknownTag
        /\ ~PassesTypeMapping)
        => /\ acs_pc = "returned"
           /\ acs_result = 500
           /\ http_requests = <<>>

C9_MergeDocumentPosted ==
    /\ \A r \in 1..Len(http_requests) :
          LET value == http_requests[r].json.value IN
          /\ Len(value) = 1
          /\ value[1]["@search.action"] = PyStr("merge")
          /\ value[1]["metadata_storage_path"] = PyStr(data.metadata_storage_path)
    /\ (PublishEnded /\ data.output # PyList(<<>>) /\ PassesTypeMapping)
           => Len(http_requests) = 1

\* a document for "/b" with a typed 'count' field was posted
C9_Witness ==
    /\ acs_pc = "returned"
    /\ data.metadata_storage_path = "/b"
    /\ Len(http_requests) = 1
    /\ "count" \in DOMAIN http_requests[1].json.value[1]
    /\ http_requests[1].json.value[1]["metadata_storage_path"] = PyStr("/b")

\* C10: a call posts at most one request and ends with it, and when it
\* returns after a request its value is the status the endpoint answered.
C10_OneRequestStatusPassedThrough ==
    /\ Len(http_requests) <= 1
    /\ Len(http_answers) = Len(http_requests)
    /\ http_requests # <<>> => PublishEnded
    /\ PublishEnded => ~ENABLED NextPublish
    /\ (acs_pc = "returned" /\ http_requests # <<>>)
           => /\ http_answers[1].error = ""
              /\ acs_result = http_answers[1].status
    /\ (acs_pc = "raised" /\ http_requests # <<>>)
           => /\ http_answers[1].error = acs_exc
              /\ acs_result = 0

\* the endpoint answered 503 and push_to_ACS returned 503 after its one request
C10_Witness ==
    /\ acs_pc = "returned"
    /\ Len(http_requests) = 1
    /\ http_answers[1].status = 503
    /\ acs_result = 503

\* the Python type of each declared search type
DeclaredType(search_type) ==
    CASE search_type = "Edm.String" -> "str"
      [] search_type \in {"Edm.Int32", "Edm.Int64"} -> "int"
      [] search_type = "Edm.Double" -> "float"
      [] search_type = "Edm.Boolean" -> "bool"

\* no later FieldSpec declares the key of FieldSpec i again
LastDeclaration(i) ==
    \A j \in (i + 1)..Len(Entries) : FieldKey(Entries[j]) # FieldKey(Entries[i])

\* C15: in every posted document each FieldSpec key holds a value of the type
\* its FieldSpec declares (of the last FieldSpec, when a key is declared
\* twice): str for Edm.String, int for Edm.Int32 and Edm.Int64, float for
\* Edm.Double, bool for Edm.Boolean; "count:Edm.Int32:x" with {"count": "5"}
\* posts the integer 5.
C15_DeclaredTypesPosted ==
    \A r \in 1..Len(http_requests) :
        LET doc == http_requests[r].json.value[1] IN
        /\ \A i \in 1..Len(Entries) :
              LastDeclaration(i)
                  => /\ FieldKey(Entries[i]) \in DOMAIN doc
                     /\ doc[FieldKey(Entries[i])].type = DeclaredType(FieldType(Entries[i]))
        /\ (OPENAI_PROMPT_KEYS = <<"count", ":", "Edm.Int32", ":", "x">>
                /\ data.output = PyDict([count |-> PyStr("5")]))
               => doc["count"] = [type |-> "int", repr |-> "5"]

\* "count:Edm.Int32:x" with {"count": "5"} was posted with the integer 5
C15_Witness ==
    /\ OPENAI_PROMPT_KEYS = <<"count", ":", "Edm.Int32", ":", "x">>
    /\ data.output = PyDict([count |-> PyStr("5")])
    /\ Len(http_requests) = 1
    /\ http_requests[1].json.value[1]["count"] = [type |-> "int", repr |-> "5"]

(***************************************************************************)
(* Properties of concurrent batch invocations                              *)
(***************************************************************************)
\* the record transform_value returns for value when its send ends with outcome
ResultAlone(value, outcome) ==
    IF outcome = NotSent
    THEN [recordId |-> value.recordId,
          errors |-> <<[message |-> RequiredMessage(FirstMissingField(value))]>>]
    ELSE IF outcome = Sent
    THEN [recordId |-> value.recordId, data |-> [status |-> "Processing document"]]
    ELSE [recordId |-> value.recordId,
          errors |-> <<[message |-> "Could not complete operation for record. " \o outcome]>>]

\* results of an invocation running alone over vs, its sends ending as outs say
RECURSIVE ResultsAlone(_, _)
ResultsAlone(vs, outs) ==
    IF outs = <<>> THEN <<>>
    ELSE <<ResultAlone(vs[1], outs[1])>> \o ResultsAlone(Tail(vs), Tail(outs))

\* the messages that invocation enqueues: those of its items whose send returned
RECURSIVE MessagesAlone(_, _)
MessagesAlone(vs, outs) ==
    IF outs = <<>> THEN <<>>
    ELSE (IF outs[1] = Sent
          THEN <<[queue_name |-> "openai_queue",
                  body |-> MessageBody(vs[1].data.metadata_storage_path, vs[1].data.text)]>>
          ELSE <<>>) \o MessagesAlone(Tail(vs), Tail(outs))

RECURSIVE MessagesOf(_, _)
MessagesOf(i, b) ==
    IF b = <<>> THEN <<>>
    ELSE (IF b[1].sender = i THEN <<b[1].message>> ELSE <<>>) \o MessagesOf(i, Tail(b))

\* C16: with the steps of two invocations interleaved in any order, each
\* invocation's results, response, exception and enqueued messages are those
\* of the same invocation run alone over its own input with the same send
\* outcomes: nothing of the other invocation shows in them.
C16_InvocationsIsolated ==
    \A i \in Invocations :
        LET f == invocation[i]
            alone == ResultsAlone(f.json_data.values, f.send_outcome)
        IN /\ f.results = alone
           /\ MessagesOf(i, bus) = MessagesAlone(f.json_data.values, f.send_outcome)
           /\ f.pc = "done"
                  => /\ Len(f.send_outcome) = Len(f.json_data.values)
                     /\ f.response = dumps_results(alone)
                     /\ f.exc = NoException
           /\ f.pc = "raised"
                  => /\ ~HasRecordId(f.json_data.values[Len(f.send_outcome) + 1])
                     /\ f.response = NoResponse
           /\ f.pc \notin {"done", "raised"} => f.response = NoResponse /\ f.exc = NoException

\* both invocations returned after their sends reached the bus interleaved
C16_Witness ==
    /\ \A i \in Invocations : invocation[i].pc = "done"
    /\ Len(bus) = 3
    /\ bus[1].sender = 1
    /\ bus[2].sender = 2
    /\ bus[3].sender = 1
    /\ Len(invocation[1].results) = 2
    /\ Len(invocation[2].results) = 1

(***************************************************************************)
(* Properties of duplicate delivery                                        *)
(***************************************************************************)
\* C17: when the same enrichment result is published twice, both calls post
\* the identical request, a merge document for the same
\* metadata_storage_path, and once the first has been applied the index
\* after the second publish is the index after the first.
C17_RepublishIsIdempotent ==
    /\ \A r \in 1..Len(http_requests) :
          /\ http_requests[r] = http_requests[1]
          /\ Len(http_requests[r].json.value) = 1
          /\ http_requests[r].json.value[1]["@search.action"] = PyStr("merge")
          /\ http_requests[r].json.value[1]["metadata_storage_path"]
                 = PyStr(data.metadata_storage_path)
    /\ Len(http_requests) <= Len(deliveries) + 1
    /\ Len(applied) = Len(http_requests)
    /\ \A d \in 1..Len(deliveries) :
          LET earlier == deliveries[d] IN
          /\ (PublishEnded /\ http_requests = <<>>)
                 => /\ acs_pc = earlier.pc
                    /\ acs_result = earlier.result
                    /\ acs_exc = earlier.exc
          /\ (\E r \in 1..earlier.requests : applied[r]) => index = earlier.index

\* the first publish was applied to a stored document, the second posted the
\* same document again and was applied too, and the index is as the first left it
C17_Witness ==
    /\ Len(deliveries) = 1
    /\ acs_pc = "returned"
    /\ applied = <<TRUE, TRUE>>
    /\ http_requests[1] = http_requests[2]
    /\ index = deliveries[1].index
    /\ index[data.metadata_storage_path].exists
    /\ index[data.metadata_storage_path].fields["summary"] # PyStr("old")

====
